---- MODULE Spec2Model ----
(***************************************************************************)
(* The model component of FiveTwelve (model.py): Vec, Tile and Board.      *)
(*                                                                         *)
(* A Tile object is an identity (a positive integer, standing for the      *)
(* Python object) with its fields row, col and value held in the heap      *)
(* `obj`.  The grid `tiles` is the list of lists self.tiles; a cell holds  *)
(* a tile identity or None.  Every event handed to notify_all is appended  *)
(* to `events` together with what a listener can see at that moment: the   *)
(* tile's fields and the grid.  `events`, `calls` and `ret` describe the   *)
(* last public call: they are reset when the next call starts.             *)
(***************************************************************************)
EXTENDS Integers, Sequences, FiniteSets, TLC

VARIABLES tiles, obj, events, calls, ret

vars == <<tiles, obj, events, calls, ret>>

----------------------------------------------------------------------------
(* Bounds of the model *)

\* in a run of calls from_list is given at most MaxTiles tiles, and place_tile
\* is called on a board with an empty cell only while it holds fewer than that
MaxTiles == 2

\* the boards a single call is tried on hold the values 2^1 .. 2^MaxExp
MaxExp == 2

\* random.choice is tried on the first MaxPick empty cells
MaxPick == 2

----------------------------------------------------------------------------
(* Program constants *)

GRID_SIZE == 4

None == 0

\* the board shapes Board(rows, cols) is constructed with
Dims == { <<4, 4>>, <<1, 4>>, <<1, 2>> }

----------------------------------------------------------------------------
(* Vec *)

Vec(x, y) == <<x, y>>

\* Vec.__add__ with the components of the second vector mixed up
Vec_add_crossed(a, b) == Vec(a[1] + b[2], a[2] + b[1])

Vec_add(a, b) == Vec(a[1] + b[1], a[2] + b[2])

----------------------------------------------------------------------------
(* Sequence helpers *)

RECURSIVE SeqSum(_)
SeqSum(s) == IF s = <<>> THEN 0 ELSE Head(s) + SeqSum(Tail(s))

RECURSIVE Pow2(_)
Pow2(n) == IF n = 0 THEN 1 ELSE 2 * Pow2(n - 1)

Range(s) == { s[i] : i \in DOMAIN s }

Min(S) == CHOOSE m \in S : \A n \in S : m <= n

----------------------------------------------------------------------------
(* Board: a record [tiles, obj, events, calls, err] threaded through the   *)
(* methods; err is the exception that ended the call, "" when none.        *)

Board_init(rows, cols) == [r \in 1 .. rows |-> [c \in 1 .. cols |-> None]]

len_rows(t) == Len(t)

len_cols(t) == Len(t[1])

\* self.tiles[pos.x][pos.y] exists (the positions used are never negative)
HasIndex(t, pos) ==
    /\ pos[1] >= 0 /\ pos[1] < Len(t)
    /\ pos[2] >= 0 /\ pos[2] < Len(t[pos[1] + 1])

getitem(t, pos) == t[pos[1] + 1][pos[2] + 1]

setitem(t, pos, v) == [t EXCEPT ![pos[1] + 1][pos[2] + 1] = v]

Positions(t) == { Vec(r, c) : r \in 0 .. Len(t) - 1, c \in 0 .. len_cols(t) - 1 }

\* the identities the grid refers to
Live(t) == { getitem(t, p) : p \in Positions(t) } \ {None}

\* a new Python object is distinct from every object still referred to
NewId(B) == Min((1 .. Cardinality(DOMAIN B.obj) + 1) \ DOMAIN B.obj)

Tile_init(B, pos, value) ==
    LET id == NewId(B)
    IN  [B EXCEPT !.obj = [i \in DOMAIN B.obj \cup {id} |->
                              IF i = id
                              THEN [row |-> pos[1], col |-> pos[2], value |-> value]
                              ELSE B.obj[i]]]

GameEvent(B, kind, id) ==
    [kind |-> kind, tile |-> id, row |-> B.obj[id].row, col |-> B.obj[id].col,
     value |-> B.obj[id].value, grid |-> B.tiles]

notify_all(B, ev) == [B EXCEPT !.events = Append(B.events, ev)]

Tile_eq(B, a, b) == B.obj[a].value = B.obj[b].value

\* move_to telling the listeners before it has set row and col
move_to_notify_first(B, id, new_pos) ==
    LET B1 == notify_all(B, GameEvent(B, "tile_updated", id))
    IN  [B1 EXCEPT !.obj[id].row = new_pos[1], !.obj[id].col = new_pos[2]]

move_to(B, id, new_pos) ==
    LET B1 == [B EXCEPT !.obj[id].row = new_pos[1], !.obj[id].col = new_pos[2]]
    IN  notify_all(B1, GameEvent(B1, "tile_updated", id))

\* merge without the addition of the absorbed tile's value
merge_no_add(B, self, other) ==
    LET B1 == notify_all(B, GameEvent(B, "tile_updated", self))
    IN  notify_all(B1, GameEvent(B1, "tile_removed", other))

\* merge without the tile_removed notification
merge_unannounced(B, self, other) ==
    LET B1 == [B EXCEPT !.obj[self].value = B.obj[self].value + B.obj[other].value]
    IN  notify_all(B1, GameEvent(B1, "tile_updated", self))

\* merge announcing the absorbed tile before the absorbing one
merge_removed_first(B, self, other) ==
    LET B1 == [B EXCEPT !.obj[self].value = B.obj[self].value + B.obj[other].value]
        B2 == notify_all(B1, GameEvent(B1, "tile_removed", other))
    IN  notify_all(B2, GameEvent(B2, "tile_updated", self))

merge(B, self, other) ==
    LET B1 == [B EXCEPT !.obj[self].value = B.obj[self].value + B.obj[other].value]
        B2 == notify_all(B1, GameEvent(B1, "tile_updated", self))
    IN  notify_all(B2, GameEvent(B2, "tile_removed", other))

in_bounds(B, pos) ==
    LET rows == len_rows(B.tiles)
        cols == len_cols(B.tiles)
    IN  /\ 0 <= pos[1] /\ pos[1] <= rows - 1
        /\ 0 <= pos[2] /\ pos[2] <= cols - 1

\* move_tile with the old cell cleared only after the tile has told its listeners
move_tile_late(B, old_pos, new_pos) ==
    LET B1 == [B EXCEPT !.tiles = setitem(B.tiles, new_pos, getitem(B.tiles, old_pos))]
        B2 == move_to(B1, getitem(B1.tiles, new_pos), new_pos)
    IN  [B2 EXCEPT !.tiles = setitem(B2.tiles, old_pos, None)]

move_tile(B, old_pos, new_pos) ==
    LET B1 == [B EXCEPT !.tiles = setitem(B.tiles, new_pos, getitem(B.tiles, old_pos))]
        B2 == [B1 EXCEPT !.tiles = setitem(B1.tiles, old_pos, None)]
    IN  move_to(B2, getitem(B2.tiles, new_pos), new_pos)

\* one pass of the `while True` loop of slide and the passes after it;
\* n counts the passes made so far
RECURSIVE slide_loop(_, _, _, _)
slide_loop(B, pos, dir, n) ==
    LET new_pos == Vec_add(pos, dir)
        here    == getitem(B.tiles, pos)
    IN  IF ~in_bounds(B, new_pos)
        THEN [B |-> B, iters |-> n + 1]
        ELSE IF getitem(B.tiles, new_pos) = None
        THEN slide_loop(move_tile(B, pos, new_pos), new_pos, dir, n + 1)
        ELSE IF Tile_eq(B, here, getitem(B.tiles, new_pos))
        THEN slide_loop(move_tile(merge(B, here, getitem(B.tiles, new_pos)),
                                  pos, new_pos),
                        new_pos, dir, n + 1)
        ELSE [B |-> B, iters |-> n + 1]

\* slide entering its loop once more from where the tile has come to rest
slide_again(B, pos, dir) ==
    IF B.err /= "" THEN B
    ELSE IF ~HasIndex(B.tiles, pos)
    THEN [B EXCEPT !.err = "IndexError",
                   !.calls = Append(B.calls, [pos |-> pos, iters |-> 0])]
    ELSE IF getitem(B.tiles, pos) = None
    THEN [B EXCEPT !.calls = Append(B.calls, [pos |-> pos, iters |-> 0])]
    ELSE LET id   == getitem(B.tiles, pos)
             r    == slide_loop(B, pos, dir, 0)
             rest == Vec(r.B.obj[id].row, r.B.obj[id].col)
             r2   == slide_loop(r.B, rest, dir, r.iters)
         IN  [r2.B EXCEPT !.calls = Append(B.calls, [pos |-> pos, iters |-> r2.iters])]

\* slide(pos, dir); a call made after an exception is not made at all
slide(B, pos, dir) ==
    IF B.err /= "" THEN B
    ELSE IF ~HasIndex(B.tiles, pos)
    THEN [B EXCEPT !.err = "IndexError",
                   !.calls = Append(B.calls, [pos |-> pos, iters |-> 0])]
    ELSE IF getitem(B.tiles, pos) = None
    THEN [B EXCEPT !.calls = Append(B.calls, [pos |-> pos, iters |-> 0])]
    ELSE LET r == slide_loop(B, pos, dir, 0)
         IN  [r.B EXCEPT !.calls = Append(B.calls, [pos |-> pos, iters |-> r.iters])]

\* for i in outer: for j in inner: (i, j), as a list of pairs
Nested(outer, inner) ==
    [k \in 1 .. Len(outer) * Len(inner) |->
        <<outer[((k - 1) \div Len(inner)) + 1], inner[((k - 1) % Len(inner)) + 1]>>]

RECURSIVE slide_all(_, _, _)
slide_all(B, order, dir) ==
    IF order = <<>> THEN B
    ELSE slide_all(slide(B, Head(order), dir), Tail(order), dir)

right_order ==
    LET row == <<0, 1, 2, 3>>
        col == <<3, 2, 1, 0>>
        ij  == Nested(row, col)
    IN  [k \in DOMAIN ij |-> Vec(ij[k][1], ij[k][2])]

\* right with the direction of left
right_backwards(B) == slide_all(B, right_order, Vec(0, -1))

right(B) == slide_all(B, right_order, Vec(0, 1))

left_order ==
    LET row == <<0, 1, 2, 3>>
        col == <<0, 1, 2, 3>>
        ij  == Nested(row, col)
    IN  [k \in DOMAIN ij |-> Vec(ij[k][1], ij[k][2])]

left(B) == slide_all(B, left_order, Vec(0, -1))

up_order ==
    LET row == <<0, 1, 2, 3>>
        col == <<0, 1, 2, 3>>
        ij  == Nested(col, row)
    IN  [k \in DOMAIN ij |-> Vec(ij[k][2], ij[k][1])]

up(B) == slide_all(B, up_order, Vec(-1, 0))

down_order ==
    LET row == <<0, 1, 2, 3>>
        col == <<3, 2, 1, 0>>
        ij  == Nested(col, row)
    IN  [k \in DOMAIN ij |-> Vec(ij[k][2], ij[k][1])]

down(B) == slide_all(B, down_order, Vec(1, 0))

\* _empty_positions: the empty cells in row-major order
RECURSIVE empty_scan(_, _)
empty_scan(t, k) ==
    IF k >= Len(t) * len_cols(t) THEN <<>>
    ELSE LET pos == Vec(k \div len_cols(t), k % len_cols(t))
         IN  (IF getitem(t, pos) = None THEN <<pos>> ELSE <<>>) \o empty_scan(t, k + 1)

empty_positions(B) == empty_scan(B.tiles, 0)

\* has_empty: the value returned, as Python prints it
has_empty(B) ==
    LET em_list == empty_positions(B)
    IN  IF Len(em_list) /= 0 THEN "True" ELSE "None"

\* place_tile without its event
place_tile_silent(B, asserts, choice, value) ==
    LET empties == empty_positions(B)
        B1 == Tile_init(B, choice, value)
    IN  IF asserts /\ ~(Len(empties) > 0) THEN [B EXCEPT !.err = "AssertionError"]
        ELSE IF Len(empties) = 0 THEN [B EXCEPT !.err = "IndexError"]
        ELSE [B1 EXCEPT !.tiles = setitem(B1.tiles, choice, NewId(B))]

\* place_tile choosing among all the cells, with no look at the empty ones
place_tile_unchecked(B, asserts, choice, value) ==
    LET B1 == Tile_init(B, choice, value)
        B2 == [B1 EXCEPT !.tiles = setitem(B1.tiles, choice, NewId(B))]
    IN  notify_all(B2, GameEvent(B2, "tile_created", NewId(B)))

\* place_tile; `asserts` tells whether assert statements are compiled in
\* (they are not under python -O), `choice` is what random.choice returns
\* and `value` the value drawn
place_tile(B, asserts, choice, value) ==
    LET empties == empty_positions(B)
        B1 == Tile_init(B, choice, value)
        id == NewId(B)
        B2 == [B1 EXCEPT !.tiles = setitem(B1.tiles, choice, id)]
    IN  IF asserts /\ ~(Len(empties) > 0) THEN [B EXCEPT !.err = "AssertionError"]
        ELSE IF Len(empties) = 0 THEN [B EXCEPT !.err = "IndexError"]
        ELSE notify_all(B2, GameEvent(B2, "tile_created", id))

\* the values place_tile draws when it is given none
DrawnValues == {2, 4}

to_list(B) ==
    [r \in 1 .. Len(B.tiles) |->
        [c \in 1 .. Len(B.tiles[r]) |->
            IF B.tiles[r][c] = None THEN 0 ELSE B.obj[B.tiles[r][c]].value]]

\* from_list's inner loop leaving a cell as it is where `values` holds 0
from_list_cell_keep(B, values, row, col) ==
    IF ~HasIndex(B.tiles, Vec(row, col)) THEN [B EXCEPT !.err = "IndexError"]
    ELSE IF values[row + 1][col + 1] = 0 THEN B
    ELSE LET B1 == Tile_init(B, Vec(row, col), values[row + 1][col + 1])
         IN  [B1 EXCEPT !.tiles = setitem(B1.tiles, Vec(row, col), NewId(B))]

\* the body of from_list's inner loop for one (row, col) of `values`
from_list_cell(B, values, row, col) ==
    IF ~HasIndex(B.tiles, Vec(row, col)) THEN [B EXCEPT !.err = "IndexError"]
    ELSE IF values[row + 1][col + 1] = 0
    THEN [B EXCEPT !.tiles = setitem(B.tiles, Vec(row, col), None)]
    ELSE LET B1 == Tile_init(B, Vec(row, col), values[row + 1][col + 1])
         IN  [B1 EXCEPT !.tiles = setitem(B1.tiles, Vec(row, col), NewId(B))]

RECURSIVE from_list_loop(_, _, _, _)
from_list_loop(B, values, row, col) ==
    IF B.err /= "" \/ row >= Len(values) THEN B
    ELSE IF col >= Len(values[row + 1]) THEN from_list_loop(B, values, row + 1, 0)
    ELSE from_list_loop(from_list_cell(B, values, row, col), values, row, col + 1)

from_list(B, values) == from_list_loop(B, values, 0, 0)

\* score: the sum, or the exception raised by None.value
RECURSIVE score_loop(_, _, _)
score_loop(B, k, score) ==
    IF k >= Len(B.tiles) * len_cols(B.tiles) THEN [val |-> score, err |-> ""]
    ELSE LET pos == Vec(k \div len_cols(B.tiles), k % len_cols(B.tiles))
         IN  IF getitem(B.tiles, pos) = None
             THEN [val |-> "None", err |-> "AttributeError"]
             ELSE score_loop(B, k + 1, score + B.obj[getitem(B.tiles, pos)].value)

score(B) == score_loop(B, 0, 0)

----------------------------------------------------------------------------
(* Inputs *)

Vals == { Pow2(e) : e \in 1 .. MaxExp }

NonZero(line) == { i \in DOMAIN line : line[i] /= 0 }

\* the values from_list is given in a run of calls
LoadValues == {0, 2}

\* a row that holds at most MaxTiles tiles
Lines(cols) ==
    { line \in [1 .. cols -> LoadValues] : Cardinality(NonZero(line)) <= MaxTiles }

\* any row at all
FullLines(cols) == [1 .. cols -> Vals \cup {0}]

ZeroGrid(rows, cols) == [r \in 1 .. rows |-> [c \in 1 .. cols |-> 0]]

Transpose(g) == [r \in 1 .. Len(g[1]) |-> [c \in 1 .. Len(g) |-> g[c][r]]]

\* the grids from_list is given in a run of calls: tiles in the first row only
LoadGrids(rows, cols) ==
    { [ZeroGrid(rows, cols) EXCEPT ![1] = line] : line \in Lines(cols) }

\* the grids a single call is tried on: one row or one column filled at will
LineGrids(rows, cols) ==
    { [ZeroGrid(rows, cols) EXCEPT ![r] = line] :
          r \in 1 .. rows, line \in FullLines(cols) }
    \cup
    { Transpose([ZeroGrid(cols, rows) EXCEPT ![c] = line]) :
          c \in 1 .. cols, line \in FullLines(rows) }

Dirs == { Vec(0, 1), Vec(0, -1), Vec(-1, 0), Vec(1, 0) }

\* the positions slide is called with
SlidePositions == { Vec(r, c) : r \in 0 .. GRID_SIZE - 1, c \in 0 .. GRID_SIZE - 1 }

----------------------------------------------------------------------------
(* The state machine *)

NoObjects == [i \in {} |-> 0]

\* the board as a public call finds it
Self == [tiles |-> tiles, obj |-> obj, events |-> <<>>, calls |-> <<>>, err |-> ""]

\* Identities mean nothing beyond equality, so a call's result is written with
\* the tiles of the grid named 1, 2, ... in row-major order and the objects that
\* left the grid named after them; the heap keeps the objects of the grid.
Flat(t) == [k \in 1 .. Len(t) * len_cols(t) |->
               t[((k - 1) \div len_cols(t)) + 1][((k - 1) % len_cols(t)) + 1]]

\* the tiles of the grid in row-major order
LiveSeq(t) == SelectSeq(Flat(t), LAMBDA i : i /= None)

IndexOf(s, x) == CHOOSE k \in DOMAIN s : s[k] = x

Renamed(B, order, i) ==
    IF i \in Range(order) THEN IndexOf(order, i)
    ELSE Len(order) + Cardinality({ j \in DOMAIN B.obj \ Range(order) : j <= i })

RenameGrid(B, order, t) ==
    [r \in DOMAIN t |->
        [c \in DOMAIN t[r] |-> IF t[r][c] = None THEN None ELSE Renamed(B, order, t[r][c])]]

\* the board as a public call leaves it, with what the call returned
Result(B, op, arg, val) ==
    LET order == LiveSeq(B.tiles)
    IN  [tiles  |-> RenameGrid(B, order, B.tiles),
         obj    |-> [n \in DOMAIN order |-> B.obj[order[n]]],
         events |-> [k \in DOMAIN B.events |->
                        [B.events[k] EXCEPT !.tile = Renamed(B, order, @),
                                            !.grid = RenameGrid(B, order, @)]],
         calls  |-> B.calls,
         ret    |-> [op |-> op, arg |-> arg,
                     val |-> IF B.err = "" THEN val ELSE "None", err |-> B.err]]

Return(B, op, arg, val) ==
    LET R == Result(B, op, arg, val)
    IN  /\ tiles' = R.tiles
        /\ obj' = R.obj
        /\ events' = R.events
        /\ calls' = R.calls
        /\ ret' = R.ret

Constructed(rows, cols) ==
    [tiles |-> Board_init(rows, cols), obj |-> NoObjects, events |-> <<>>,
     calls |-> <<>>, err |-> ""]

Init ==
    \E d \in Dims :
        /\ tiles = Board_init(d[1], d[2])
        /\ obj = NoObjects
        /\ events = <<>>
        /\ calls = <<>>
        /\ ret = [op |-> "init", arg |-> d, val |-> "None", err |-> ""]

FromList ==
    \E values \in LoadGrids(len_rows(tiles), len_cols(tiles)) :
        LET B == from_list(Self, values)
        IN  Return(B, "from_list", values, "self.tiles")

\* the cells random.choice may return in this model
Picks(empties) == { empties[k] : k \in 1 .. Min({MaxPick, Len(empties)}) }

PlaceTile ==
    LET empties == empty_positions(Self)
    IN  /\ Len(empties) > 0 => Cardinality(Live(tiles)) < MaxTiles
        /\ \E asserts \in BOOLEAN, value \in DrawnValues :
               \E choice \in IF Len(empties) > 0 THEN Picks(empties) ELSE {Vec(0, 0)} :
                   Return(place_tile(Self, asserts, choice, value),
                          "place_tile", "None", "None")

Right == Return(right(Self), "right", "None", "None")

Left == Return(left(Self), "left", "None", "None")

Up == Return(up(Self), "up", "None", "None")

Down == Return(down(Self), "down", "None", "None")

HasEmpty == Return(Self, "has_empty", "None", has_empty(Self))

ToList == Return(Self, "to_list", "None", to_list(Self))

Score ==
    LET r == score(Self)
    IN  Return([Self EXCEPT !.err = r.err], "score", "None", r.val)

Next ==
    \/ FromList
    \/ PlaceTile
    \/ Right
    \/ Left
    \/ Up
    \/ Down

\* runs of calls that change the board, from a board just constructed
Spec == Init /\ [][Next]_vars

----------------------------------------------------------------------------
(* One call on a board just loaded by from_list *)

InitLoaded ==
    \E d \in Dims :
        \E values \in LineGrids(d[1], d[2]) :
            LET R == Result(from_list(Constructed(d[1], d[2]), values),
                            "from_list", values, "self.tiles")
            IN  /\ tiles = R.tiles
                /\ obj = R.obj
                /\ events = R.events
                /\ calls = R.calls
                /\ ret = R.ret

Loaded == ret.op = "from_list"

Slide ==
    /\ Loaded
    /\ \E pos \in SlidePositions, dir \in Dirs :
           Return(slide(Self, pos, dir), "slide", <<pos, dir>>, "None")

RightOnce == Loaded /\ Right

LeftOnce == Loaded /\ Left

UpOnce == Loaded /\ Up

DownOnce == Loaded /\ Down

HasEmptyOnce == Loaded /\ HasEmpty

ToListOnce == Loaded /\ ToList

ScoreOnce == Loaded /\ Score

FromListOnce == Loaded /\ FromList

\* grids from_list is not meant for: a negative value, a shape narrower than
\* the board's, rows of different lengths, a shape wider than the board's
MalformedGrids(rows, cols) ==
    { [ZeroGrid(rows, cols) EXCEPT ![1][1] = -2],
      [r \in 1 .. rows |-> <<4>>],
      << <<4>>, <<4, 4>> >>,
      [ZeroGrid(rows, cols + 1) EXCEPT ![1][cols + 1] = 4] }

FromListMalformed ==
    /\ Loaded
    /\ \E values \in MalformedGrids(Len(tiles), len_cols(tiles)) :
           Return(from_list(Self, values), "from_list", values, "self.tiles")

NextLoad ==
    \/ FromListOnce
    \/ FromListMalformed

SpecLoad == InitLoaded /\ [][NextLoad]_vars

NextCall ==
    \/ Slide
    \/ RightOnce
    \/ LeftOnce
    \/ UpOnce
    \/ DownOnce
    \/ HasEmptyOnce
    \/ ToListOnce
    \/ ScoreOnce
    \/ FromListOnce

SpecCall == InitLoaded /\ [][NextCall]_vars

----------------------------------------------------------------------------
(* Properties *)

Sweeps == {"right", "left", "up", "down"}

\* the events of the last call that report an absorbed tile
Removed == { k \in DOMAIN events : events[k].kind = "tile_removed" }

\* C1: a slide call merges at most once: when the sliding tile has absorbed a
\* tile and moved into its cell the call ends there, so a tile_removed event is
\* followed by the move into the absorbed tile's cell and by nothing else.
C1_MergeOnce ==
    ret.op = "slide" =>
        /\ Cardinality(Removed) <= 1
        /\ \A k \in Removed :
               /\ k + 1 = Len(events)
               /\ events[k + 1].kind = "tile_updated"
               /\ events[k + 1].row = events[k].row
               /\ events[k + 1].col = events[k].col

\* two positions on one line along the axis of the sweep
SameLine(op, p, q) == IF op \in {"right", "left"} THEN p[1] = q[1] ELSE p[2] = q[2]

\* p is nearer than q to the edge the sweep moves the tiles to
Nearer(op, p, q) ==
    CASE op = "right" -> p[2] > q[2]
      [] op = "left"  -> p[2] < q[2]
      [] op = "up"    -> p[1] < q[1]
      [] op = "down"  -> p[1] > q[1]

\* C2: within every line along the sweep axis a sweep calls slide on the
\* position nearest the target edge first and on the farthest last (stated of
\* the sweeps that run to their end).
C2_NearestFirst ==
    (ret.op \in Sweeps /\ ret.err = "") =>
        \A k, l \in DOMAIN calls :
            (k < l /\ SameLine(ret.op, calls[k].pos, calls[l].pos))
                => Nearer(ret.op, calls[k].pos, calls[l].pos)

SumGrid(g) == SeqSum([r \in DOMAIN g |-> SeqSum(g[r])])

\* C3: score() returns the sum of the to_list() entries and raises nothing,
\* also on a board with empty cells.
C3_ScoreIsSum ==
    ret.op = "score" => (ret.err = "" /\ ret.val = SumGrid(to_list(Self)))

\* C4: has_empty() returns True when some cell is empty and False, not None,
\* when every cell is occupied.
C4_HasEmptyBool ==
    ret.op = "has_empty" =>
        ret.val = (IF \E p \in Positions(tiles) : getitem(tiles, p) = None
                   THEN "True" ELSE "False")

\* a grid of the board's shape with no negative entry
WellFormed(g) ==
    /\ Len(g) = Len(tiles)
    /\ \A r \in DOMAIN g :
           /\ Len(g[r]) = Len(tiles[r])
           /\ \A c \in DOMAIN g[r] : g[r][c] >= 0

\* C5: from_list(G) followed by to_list() gives G back, for every grid G of the
\* board's shape with no negative entry, whatever the board held before.
C5_RoundTrip ==
    (ret.op = "from_list" /\ WellFormed(ret.arg)) => to_list(Self) = ret.arg

C5_Witness ==
    /\ ret.op = "from_list"
    /\ Len(tiles) = 4
    /\ Cardinality(Live(tiles)) = 2
    /\ to_list(Self)[1] = <<0, 2, 0, 2>>

\* what a cell shows: nothing, or the fields of the tile in it
CellView(t, o, p) ==
    IF getitem(t, p) = None THEN <<>>
    ELSE <<o[getitem(t, p)].row, o[getitem(t, p)].col, o[getitem(t, p)].value>>

Created(evs) == { k \in DOMAIN evs : evs[k].kind = "tile_created" }

\* C6: place_tile() on a board with an empty cell fills exactly one cell that
\* was empty with a tile of value 2 or 4, leaves every other cell as it was and
\* emits exactly one tile_created event, which carries the new tile.
C6_PlaceOne ==
    [][ (ret'.op = "place_tile" /\ \E p \in Positions(tiles) : getitem(tiles, p) = None)
        => /\ ret'.err = ""
           /\ \E p \in Positions(tiles) :
                  /\ getitem(tiles, p) = None
                  /\ getitem(tiles', p) /= None
                  /\ obj'[getitem(tiles', p)].value \in {2, 4}
                  /\ \A q \in Positions(tiles) \ {p} :
                         CellView(tiles', obj', q) = CellView(tiles, obj, q)
                  /\ Cardinality(Created(events')) = 1
                  /\ \A k \in Created(events') : events'[k].tile = getitem(tiles', p)
      ]_vars

C6_Witness ==
    /\ ret.op = "place_tile"
    /\ ret.err = ""
    /\ Cardinality(Live(tiles)) = 2
    /\ \E k \in Created(events) : events[k].value = 4

\* C7: place_tile() on a board with no empty cell raises an exception, leaves
\* every cell as it was and emits no tile_created event.
C7_PlaceOnFull ==
    [][ (ret'.op = "place_tile" /\ \A p \in Positions(tiles) : getitem(tiles, p) /= None)
        => /\ ret'.err /= ""
           /\ tiles' = tiles
           /\ obj' = obj
           /\ Created(events') = {}
      ]_vars

C7_Witness ==
    /\ ret.op = "place_tile"
    /\ ret.err /= ""
    /\ \A p \in Positions(tiles) : getitem(tiles, p) /= None

\* C8: on Board(1, 4) loaded with [[2, 0, 0, 2]], right() raises nothing and
\* to_list() then gives [[0, 0, 0, 4]].
C8_RightOneByFour ==
    [][ (/\ ret.op = "from_list"
         /\ to_list(Self) = << <<2, 0, 0, 2>> >>
         /\ ret'.op = "right")
        => /\ ret'.err = ""
           /\ to_list([tiles |-> tiles', obj |-> obj']) = << <<0, 0, 0, 4>> >>
      ]_vars

\* C9: a sweep calls slide on exactly the positions of the grid, whatever the
\* shape of the board, and indexes no cell outside it.
C9_VisitsGrid ==
    ret.op \in Sweeps =>
        /\ ret.err = ""
        /\ { calls[k].pos : k \in DOMAIN calls } = Positions(tiles)

\* no tile is in two cells of grid t
OneCellPerTile(t) ==
    \A p, q \in Positions(t) :
        (p /= q /\ getitem(t, p) /= None) => getitem(t, p) /= getitem(t, q)

\* C10: no tile is referred to from two cells, neither in the grid a call
\* leaves nor in the grid a listener sees when an event is delivered.
C10_OneCellPerTile ==
    /\ OneCellPerTile(tiles)
    /\ \A k \in DOMAIN events : OneCellPerTile(events[k].grid)

C10_Witness ==
    /\ ret.op \in Sweeps
    /\ ret.err = ""
    /\ Removed /= {}
    /\ Len(events) >= 4

\* C11: every merge is reported in this order: tile_updated for the absorbing
\* tile, already holding the sum of the two values, then tile_removed for the
\* absorbed tile, then the tile_updated of the absorbing tile's move into the
\* absorbed tile's cell.
C11_MergeEventOrder ==
    \A k \in Removed :
        /\ k - 1 \in DOMAIN events
        /\ k + 1 \in DOMAIN events
        /\ events[k - 1].kind = "tile_updated"
        /\ events[k - 1].tile /= events[k].tile
        /\ events[k - 1].value = 2 * events[k].value
        /\ <<events[k - 1].row, events[k - 1].col>> /= <<events[k].row, events[k].col>>
        /\ events[k + 1].kind = "tile_updated"
        /\ events[k + 1].tile = events[k - 1].tile
        /\ events[k + 1].value = events[k - 1].value
        /\ <<events[k + 1].row, events[k + 1].col>> = <<events[k].row, events[k].col>>

C11_Witness ==
    /\ ret.op = "slide"
    /\ ret.err = ""
    /\ Cardinality(Removed) = 2

\* the value shown by cell p of the grid g of values
ValueAt(g, p) == g[p[1] + 1][p[2] + 1]

Occupied(g) == { p \in Positions(g) : ValueAt(g, p) /= 0 }

\* in every line along the axis of sweep op the tile values are all different
DistinctLines(g, op) ==
    \A p, q \in Occupied(g) :
        (p /= q /\ SameLine(op, p, q)) => ValueAt(g, p) /= ValueAt(g, q)

\* q is where p was, or nearer than it to the edge sweep op moves the tiles to
TowardEdge(op, p, q) == q = p \/ Nearer(op, q, p)

\* C12: when the values in every line along the sweep axis are all different,
\* a sweep keeps the multiset of values, keeps every tile in its line and
\* moves a tile towards the target edge or not at all.
C12_NoMergeSweep ==
    [][ (ret'.op \in Sweeps /\ DistinctLines(to_list(Self), ret'.op))
        => LET before == to_list(Self)
               after  == to_list([tiles |-> tiles', obj |-> obj'])
           IN  /\ Cardinality(Occupied(after)) = Cardinality(Occupied(before))
               /\ \A p \in Occupied(before) :
                      \E q \in Occupied(after) :
                          /\ ValueAt(after, q) = ValueAt(before, p)
                          /\ SameLine(ret'.op, p, q)
                          /\ TowardEdge(ret'.op, p, q)
               /\ { k \in DOMAIN events' : events'[k].kind /= "tile_updated" } = {}
      ]_vars

C12_Witness ==
    /\ ret.op = "right"
    /\ ret.err = ""
    /\ Len(events) >= 2
    /\ to_list(Self)[1] = <<0, 0, 2, 4>>

\* C13: from_list given a grid with rows of different lengths, a grid of
\* another shape than the board's or a grid with a negative value ends with an
\* error, and no live tile ever has a negative value.
C13_Validates ==
    /\ (ret.op = "from_list" /\ ~WellFormed(ret.arg)) => ret.err /= ""
    /\ \A id \in Live(tiles) : obj[id].value >= 0

Max(a, b) == IF a >= b THEN a ELSE b

\* C14: every slide makes at most max(rows, cols) passes of its loop, and a
\* sweep is at most 16 such slides: on the 4x4 board it makes all 16 and
\* returns.
C14_SlideBounded ==
    /\ \A k \in DOMAIN calls : calls[k].iters <= Max(Len(tiles), len_cols(tiles))
    /\ ret.op \in Sweeps =>
           /\ Len(calls) <= GRID_SIZE * GRID_SIZE
           /\ (Len(tiles) = GRID_SIZE /\ len_cols(tiles) = GRID_SIZE) =>
                  (Len(calls) = GRID_SIZE * GRID_SIZE /\ ret.err = "")

C14_Witness ==
    /\ ret.op = "slide"
    /\ Len(tiles) = GRID_SIZE
    /\ calls[1].iters = GRID_SIZE
    /\ Removed /= {}

\* no empty cell lies between a tile and the edge sweep op moves the tiles to
Packed(g, op) ==
    \A p \in Occupied(g), q \in Positions(g) :
        (SameLine(op, p, q) /\ Nearer(op, q, p)) => ValueAt(g, q) /= 0

\* C15: after right, left, up or down on the 4x4 board every line along the
\* sweep axis is packed against the target edge.
C15_Packed ==
    (ret.op \in Sweeps /\ Len(tiles) = GRID_SIZE /\ len_cols(tiles) = GRID_SIZE)
        => Packed(to_list(Self), ret.op)

\* the cells pos, pos + dir, pos + 2 dir, ...
OnRay(pos, dir, p) ==
    \E k \in 0 .. GRID_SIZE : p = Vec(pos[1] + k * dir[1], pos[2] + k * dir[2])

\* C16: slide(pos, dir) leaves every cell off the ray from pos in direction
\* dir as it was, and on an empty cell pos it changes no cell and emits no
\* event.
C16_SlideFrame ==
    [][ ret'.op = "slide"
        => LET pos == ret'.arg[1]
               dir == ret'.arg[2]
           IN  /\ \A p \in Positions(tiles) :
                      ~OnRay(pos, dir, p)
                          => CellView(tiles', obj', p) = CellView(tiles, obj, p)
               /\ (HasIndex(tiles, pos) /\ getitem(tiles, pos) = None)
                      => /\ \A p \in Positions(tiles) :
                                CellView(tiles', obj', p) = CellView(tiles, obj, p)
                         /\ events' = <<>>
                         /\ ret'.err = ""
      ]_vars

C16_Witness ==
    /\ ret.op = "slide"
    /\ Removed /= {}
    /\ \E p \in Positions(tiles) :
           /\ getitem(tiles, p) /= None
           /\ ~OnRay(ret.arg[1], ret.arg[2], p)

Reverse(q) == [i \in DOMAIN q |-> q[Len(q) + 1 - i]]

\* the grid with its rows in the opposite order
FlipVertical(g) == Reverse(g)

\* the grid with every row reversed
FlipHorizontal(g) == [r \in DOMAIN g |-> Reverse(g[r])]

\* the grid a fresh 4x4 board loaded with g shows after sweep op
Swept(op, g) ==
    LET B == from_list(Constructed(GRID_SIZE, GRID_SIZE), g)
    IN  to_list(CASE op = "right" -> right(B)
                  [] op = "left"  -> left(B)
                  [] op = "up"    -> up(B)
                  [] op = "down"  -> down(B))

\* C17: on every 4x4 grid down() is the vertical mirror image of up() and
\* right() the horizontal mirror image of left().
C17_Mirror ==
    [][ (Len(tiles) = GRID_SIZE /\ len_cols(tiles) = GRID_SIZE)
        => LET before == to_list(Self)
               after  == to_list([tiles |-> tiles', obj |-> obj'])
           IN  /\ ret'.op = "down"
                      => after = FlipVertical(Swept("up", FlipVertical(before)))
               /\ ret'.op = "right"
                      => after = FlipHorizontal(Swept("left", FlipHorizontal(before)))
      ]_vars

\* C18: a sweep keeps the sum of the entries of to_list() and never makes the
\* number of tiles grow.
C18_SweepConserves ==
    [][ ret'.op \in Sweeps
        => /\ SumGrid(to_list([tiles |-> tiles', obj |-> obj'])) = SumGrid(to_list(Self))
           /\ Cardinality(Live(tiles')) <= Cardinality(Live(tiles))
      ]_vars

C18_Witness ==
    /\ ret.op = "up"
    /\ ret.err = ""
    /\ Cardinality(Removed) = 2

\* C19: after every call the tile stored in cell (r, c) has row = r and
\* col = c, and the tile of every tile_created and of every tile_updated event
\* (those of move_to among them) stands, when the event is delivered, in the
\* cell its row and col name.
C19_TileKnowsCell ==
    /\ \A p \in Positions(tiles) :
           getitem(tiles, p) /= None
               => <<obj[getitem(tiles, p)].row, obj[getitem(tiles, p)].col>> = p
    /\ \A k \in DOMAIN events :
           events[k].kind \in {"tile_created", "tile_updated"}
               => /\ HasIndex(events[k].grid, Vec(events[k].row, events[k].col))
                  /\ getitem(events[k].grid, Vec(events[k].row, events[k].col))
                         = events[k].tile

C19_Witness ==
    /\ ret.op = "left"
    /\ Cardinality(Live(tiles)) = 2
    /\ \E k \in DOMAIN events :
           /\ events[k].kind = "tile_updated"
           /\ events[k].col = 0
           /\ k > 1

\* the events of evs that report an absorbed tile
RemovedIn(evs) == { k \in DOMAIN evs : evs[k].kind = "tile_removed" }

\* the tiles seen on the grid at some event of evs
SeenIn(evs) == UNION { Live(evs[k].grid) : k \in DOMAIN evs }

\* C20: in a sweep a tile leaves the grid only by being absorbed by a tile of
\* its own value; each tile that leaves has exactly one tile_removed event and
\* no event after it, and the number of tiles falls by the number of
\* tile_removed events.
C20_LeaveByMerge ==
    [][ ret'.op \in Sweeps
        => LET evs  == events'
               gone == RemovedIn(evs)
           IN  /\ Cardinality(Live(tiles)) - Cardinality(Live(tiles'))
                      = Cardinality(gone)
               /\ SeenIn(evs) \ Live(tiles') = { evs[k].tile : k \in gone }
               /\ \A k \in gone :
                      /\ k > 1
                      /\ evs[k - 1].kind = "tile_updated"
                      /\ evs[k - 1].tile /= evs[k].tile
                      /\ evs[k - 1].value - evs[k].value = evs[k].value
                      /\ evs[k].tile \in Live(evs[k].grid)
                      /\ \A j \in DOMAIN evs :
                             j > k => /\ evs[j].tile /= evs[k].tile
                                      /\ evs[k].tile \notin Live(evs[j].grid)
      ]_vars

C20_Witness ==
    /\ ret.op = "left"
    /\ ret.err = ""
    /\ Cardinality(Removed) = 2
    /\ Live(tiles) /= {}

====
